---------------------------- MODULE Spec2Model ----------------------------
(***************************************************************************)
(* State-machine model of the demand-estimation notebook                   *)
(* (src/.ipynb_checkpoints/notebook-checkpoint.ipynb): the linear IV cell  *)
(* and the non-linear IV cell, statement by statement.                     *)
(*                                                                         *)
(* Numbers.  A float64 is modelled as a fixed-point integer counting units *)
(* of 1/Scale, so 0.99 is 990000 and 1e-4 is 100.  Every operator keeps    *)
(* its intermediate values inside 32 bits.  The one IEEE-754 special value *)
(* that the control flow of the notebook can see is NaN, produced by       *)
(* 0 * inf when np.exp overflows on a zero-weight row; an array is         *)
(* therefore a record [nan, v]: nan is the set of positions that hold NaN  *)
(* (v holds 0 there), and a scalar is [nan, v] with a Boolean nan.  Any    *)
(* comparison with NaN is false.                                           *)
(***************************************************************************)
EXTENDS Integers, Sequences

Scale == 1000000

\* while dchange > 1e-4
Tol == 100

\* if vb[0] > .99
Ceil == 990000

\* mdata[:,3:8]: five characteristic columns
NChars == 5

\* np.exp(x) is inf for every x > 709.782712893384
ExpOverflow == 709782712

\* The iteration counter of the model stops counting here (the loops
\* themselves have no cap).
MaxIter == 50

----------------------------------------------------------------------------
(* Fixed-point arithmetic *)

Abs(x) == IF x < 0 THEN -x ELSE x

Max2(a, b) == IF a < b THEN b ELSE a

\* a * b in units of 1/Scale, rounded; the operands are split in base 1000
\* so that no partial product leaves 32 bits.
Mul(a, b) ==
    LET ah == a \div 1000
        al == a % 1000
        bh == b \div 1000
        bl == b % 1000
    IN  ah * bh + ((ah * bl + al * bh) + ((al * bl) \div 1000) + 500) \div 1000

RECURSIVE Frac(_, _, _)
\* The first n decimal digits of r / b (0 <= r < b), rounded on the last.
Frac(r, b, n) ==
    IF n = 0 THEN (IF 2 * r >= b THEN 1 ELSE 0)
    ELSE LET d  == (r * 10) \div b
             r2 == (r * 10) % b
             p  == CASE n = 6 -> 100000 [] n = 5 -> 10000 [] n = 4 -> 1000
                     [] n = 3 -> 100 [] n = 2 -> 10 [] OTHER -> 1
         IN  d * p + Frac(r2, b, n - 1)

RECURSIVE DivPos(_, _)
DivPos(a, b) ==
    IF b > 200000000 THEN DivPos(a \div 10, b \div 10)
    ELSE (a \div b) * Scale + Frac(a % b, b, 6)

\* a / b in units of 1/Scale (b # 0).
Div(a, b) == IF b > 0 THEN DivPos(a, b) ELSE DivPos(-a, -b)

\* e^n for n = -14 .. 7, in units of 1/Scale.
EPow ==
    << 1, 2, 6, 17, 45, 123, 335, 912, 2479, 6738, 18316, 49787, 135335,
       367879, 1000000, 2718282, 7389056, 20085537, 54598150, 148413159,
       403428793, 1096633158 >>

RECURSIVE ExpFrac(_, _)
\* Taylor series of e^f for 0 <= f < 1, in Horner form from term k on.
ExpFrac(f, k) ==
    IF k > 12 THEN Scale ELSE Scale + Mul(f, ExpFrac(f, k + 1)) \div k

\* np.exp(x) for the finite results the model can hold (x < 8):
\* e^x = e^floor(x) * e^frac(x); below e^-15 the result rounds to 0.
Exp(x) ==
    LET n == x \div Scale
        f == x % Scale
    IN  IF n < -14 THEN 0 ELSE Mul(EPow[n + 15], ExpFrac(f, 1))

RECURSIVE LnSeries(_, _)
\* 1/k + t2/(k+2) + t2^2/(k+4) + ... (the atanh series).
LnSeries(t2, k) ==
    IF k > 21 THEN 0 ELSE Scale \div k + Mul(t2, LnSeries(t2, k + 2))

\* ln(m) for m in [1/e, 1]: 2 * atanh((m - 1) / (m + 1)).
LogUnit(m) ==
    LET t == Div(m - Scale, m + Scale)
    IN  2 * Mul(t, LnSeries(Mul(t, t), 1))

RECURSIVE LogRed(_, _)
\* ln(w) = ln(w * e^n) - n with w * e^n brought into [1/e, 1].
LogRed(w, n) ==
    LET m == Mul(w, EPow[n + 15])
    IN  IF m >= EPow[14] \/ n = 7 THEN LogUnit(m) - n * Scale
        ELSE LogRed(w, n + 1)

\* np.log(w) for a weight 0 < w <= 1.
Log(w) == LogRed(w, 0)

----------------------------------------------------------------------------
(* Linear algebra: a matrix is a sequence of rows, a vector a sequence *)

\* The sequence s written out as a tuple
Tuple(s) == s \o << >>

RECURSIVE DotFrom(_, _, _)
DotFrom(u, v, i) ==
    IF i > Len(u) THEN 0 ELSE Mul(u[i], v[i]) + DotFrom(u, v, i + 1)

Dot(u, v) == DotFrom(u, v, 1)

\* A.T for a matrix with nc columns
Transpose(A, nc) ==
    Tuple([j \in 1..nc |-> Tuple([i \in 1..Len(A) |-> A[i][j]])])

\* A @ B, with B given by its transpose BT
MatMulT(A, BT) ==
    Tuple([i \in 1..Len(A) |->
             Tuple([j \in 1..Len(BT) |-> Dot(A[i], BT[j])])])

\* A @ v
MatVec(A, v) == Tuple([i \in 1..Len(A) |-> Dot(A[i], v)])

\* A.T @ B for matrices with the same rows; A has nc columns, B has mc
Gram(A, nc, B, mc) == MatMulT(Transpose(A, nc), Transpose(B, mc))

Identity(n) ==
    Tuple([i \in 1..n |-> Tuple([j \in 1..n |-> IF i = j THEN Scale ELSE 0])])

\* The row of the largest |entry| of column c at or below the diagonal
\* (the first one on a tie).
PivotRow(M, c, n) ==
    CHOOSE p \in c..n :
        \A q \in c..n :
            \/ Abs(M[q][c]) < Abs(M[p][c])
            \/ Abs(M[q][c]) = Abs(M[p][c]) /\ q >= p

RECURSIVE GaussJordan(_, _, _)
\* Gauss-Jordan elimination with partial pivoting on the n x 2n matrix
\* [A | I], from column c on.  An exactly zero pivot is what makes LAPACK's
\* getrf report a singular matrix, which np.linalg.inv raises as
\* LinAlgError.
GaussJordan(M, c, n) ==
    IF c > n
    THEN [ok |-> TRUE,
          m  |-> Tuple([i \in 1..n |-> SubSeq(M[i], n + 1, 2 * n)])]
    ELSE LET p == PivotRow(M, c, n)
         IN  IF M[p][c] = 0
             THEN [ok |-> FALSE, m |-> << >>]
             ELSE LET Sw   == [M EXCEPT ![c] = M[p], ![p] = M[c]]
                      pv   == Sw[c][c]
                      prow == Tuple([j \in 1..(2 * n) |-> Div(Sw[c][j], pv)])
                      El   == Tuple([r \in 1..n |->
                                 IF r = c THEN prow
                                 ELSE Tuple([j \in 1..(2 * n) |->
                                         Sw[r][j] - Mul(Sw[r][c], prow[j])])])
                  IN  GaussJordan(El, c + 1, n)

\* np.linalg.inv(A): [ok |-> FALSE] stands for the raised LinAlgError.
Inv(A) ==
    LET n == Len(A)
        I == Identity(n)
    IN  GaussJordan(Tuple([i \in 1..n |-> A[i] \o I[i]]), 1, n)

----------------------------------------------------------------------------
(* Arrays with NaN *)

\* A finite array, and an array of n NaNs
Fin(v) == [nan |-> {}, v |-> v]

NaNs(n) == [nan |-> 1..n, v |-> Tuple([i \in 1..n |-> 0])]

\* The float scalar a[i]
At(a, i) == [nan |-> i \in a.nan, v |-> a.v[i]]

\* a[1:]
Rest(a) == [nan |-> {i - 1 : i \in a.nan \ {1}}, v |-> Tail(a.v)]

\* np.concatenate([np.array([[x]]), a], axis=0)
Prepend(x, a) == [nan |-> {i + 1 : i \in a.nan}, v |-> <<x>> \o a.v]

\* x > c for a float scalar x = [nan, v]: False when x is NaN
Gt(x, c) == ~x.nan /\ x.v > c

\* x <= c for a float scalar: False when x is NaN
Le(x, c) == ~x.nan /\ x.v <= c

RECURSIVE MaxAbsFrom(_, _, _)
MaxAbsFrom(u, v, i) ==
    IF i > Len(u) THEN 0
    ELSE Max2(Abs(u[i] - v[i]), MaxAbsFrom(u, v, i + 1))

\* np.max(np.abs(a - b)) for arrays a, b: NaN as soon as one of them is
MaxAbsDiff(a, b) ==
    IF a.nan # {} \/ b.nan # {} THEN [nan |-> TRUE, v |-> 0]
    ELSE [nan |-> FALSE, v |-> MaxAbsFrom(a.v, b.v, 1)]

----------------------------------------------------------------------------
(* The two estimators, as the cells compute them *)

\* One observation: mdata[i, 2], mdata[i, 3:8], mdata[i, 8], mdata[i, 9]
Row(w, me, iv, c) == [w |-> w, LNme |-> me, LNmeIV |-> iv, chars |-> c]

\* vrweight = mdata[:,2:3]
Vrweight(md) == Tuple([i \in 1..Len(md) |-> md[i].w])

\* np.argwhere(vrweight>0)[:,0]
Vloc(md) ==
    SelectSeq(Tuple([i \in 1..Len(md) |-> i]), LAMBDA i : md[i].w > 0)

\* mdata[vloc]
Take(md, loc) == Tuple([i \in 1..Len(loc) |-> md[loc[i]]])

Chars(rows) == Tuple([i \in 1..Len(rows) |-> rows[i].chars])

LNme(rows) == Tuple([i \in 1..Len(rows) |-> rows[i].LNme])

LNmeIV(rows) == Tuple([i \in 1..Len(rows) |-> rows[i].LNmeIV])

\* np.concatenate([first, mchars, vones], axis=1)
Design(first, chars) ==
    Tuple([i \in 1..Len(chars) |-> <<first[i]>> \o chars[i] \o <<Scale>>])

\* np.concatenate([mchars, vones], axis=1)
DesignC(chars) == Tuple([i \in 1..Len(chars) |-> chars[i] \o <<Scale>>])

\* The weights themselves as the regression target
RawWeights(rows) == Tuple([i \in 1..Len(rows) |-> rows[i].w])

\* np.log(vrweight[vloc])
LogWeights(rows) == Tuple([i \in 1..Len(rows) |-> Log(rows[i].w)])

\* np.linalg.inv(Z.T @ X) @ Z.T @ y, evaluated left to right
IVSolve(Z, X, y, n) ==
    LET inv == Inv(Gram(Z, n, X, n))
    IN  IF inv.ok THEN [ok |-> TRUE, b |-> MatVec(MatMulT(inv.m, Z), y)]
        ELSE [ok |-> FALSE, b |-> << >>]

\* A constraint check that also fires at the ceiling: vb[0] >= .99
AtOrAboveCeiling(b) == ~At(b, 1).nan /\ At(b, 1).v >= Ceil

\* The test of both constraint checks: vb[0] > .99
AboveCeiling(b) == Gt(At(b, 1), Ceil)

\* vLNrweight - .99*vLNme
OffsetTarget(y, me) == Tuple([i \in 1..Len(y) |-> y[i] - Mul(Ceil, me[i])])

\* An element of vrweight * np.exp(index) is NaN when a zero weight meets
\* an overflowed exponential (0 * inf).
LatentNaN(w, index) == w = 0 /\ index > ExpOverflow

\* An element of vrweight * np.exp(index) that is not NaN
Latent(w, index) == IF w = 0 THEN 0 ELSE Mul(w, Exp(index))

\* vb + np.linalg.inv(Zt.T @ X) @ Z.T @ (vlatent - 1), with
\* vlatent = vrweight * np.exp(index) and Zt the rows of Z scaled by it.
\* A NaN in vlatent makes every entry of Zt.T @ X NaN; LAPACK inverts that
\* without an error and every element of the new vector is NaN.
GaussNewton(w, index, X, Z, b, n) ==
    IF b.nan # {} \/ \E i \in 1..Len(w) : LatentNaN(w[i], index[i])
    THEN [ok |-> TRUE, b |-> NaNs(n)]
    ELSE LET vlatent == Tuple([i \in 1..Len(w) |-> Latent(w[i], index[i])])
             Zt  == Tuple([i \in 1..Len(Z) |->
                       Tuple([j \in 1..n |-> Mul(vlatent[i], Z[i][j])])])
             inv == Inv(Gram(Zt, n, X, n))
             res == Tuple([i \in 1..Len(w) |-> vlatent[i] - Scale])
             st  == MatVec(MatMulT(inv.m, Z), res)
         IN  IF inv.ok
             THEN [ok |-> TRUE,
                   b  |-> Fin(Tuple([j \in 1..n |-> b.v[j] + st[j]]))]
             ELSE [ok |-> FALSE, b |-> NaNs(n)]

\* The body of the unconstrained loop: the index is -mX @ vb
StepUnconstrained(w, X, Z, b, n) ==
    GaussNewton(w, Tuple([i \in 1..Len(w) |-> -Dot(X[i], b.v)]), X, Z, b, n)

\* The body of the constrained loop: the index is -.99*vLNme - mX @ vb
StepConstrained(w, me, X, b, n) ==
    GaussNewton(w,
                Tuple([i \in 1..Len(w) |->
                         -Mul(Ceil, me[i]) - Dot(X[i], b.v)]),
                X, X, b, n)

----------------------------------------------------------------------------
(* Array objects and the names bound to them *)

\* At most three arrays are alive at once: the linear result, the
\* non-linear iterate and the array an assignment is building.
HeapSize == 3

Free == [nan |-> {}, v |-> << >>]

\* A name is bound to an array object, seen from element lo on (lo = 2 for
\* the slice [1:]); id 0 is a name not bound yet.
NoRef == [id |-> 0, lo |-> 1]

\* The array a name denotes
Value(h, r) ==
    LET o == h[r.id]
    IN  IF r.lo = 1 THEN o ELSE Rest(o)

\* Reference counting: an array no name refers to is collected.
Collect(h, refs) ==
    [i \in 1..HeapSize |-> IF \E r \in refs : r.id = i THEN h[i] ELSE Free]

\* The first object that is not in use
Fresh(live) ==
    CHOOSE i \in 1..HeapSize :
        /\ \A r \in live : r.id # i
        /\ \A j \in 1..(i - 1) : \E r \in live : r.id = j

\* name = <new array>, for a name not bound before
Bind(h, val) ==
    LET id == Fresh({})
    IN  [heap |-> [h EXCEPT ![id] = val], ref |-> [id |-> id, lo |-> 1]]

\* The same statement with the array of the name updated in place
\* (name[:] = <new array>)
RebindInPlace(h, old, keep, val) ==
    LET o == h[old.id]
    IN  [heap |-> [h EXCEPT ![old.id] =
                      IF old.lo = 1 THEN val ELSE Prepend(o.v[1], val)],
         ref  |-> old]

\* name = <new array>, for a name bound to old: the right-hand side is
\* built in a new object while the arrays of old and keep are alive, then
\* the name is rebound.
Rebind(h, old, keep, val) ==
    LET id  == Fresh({old, keep})
        ref == [id |-> id, lo |-> 1]
    IN  [heap |-> Collect([h EXCEPT ![id] = val], {keep, ref}), ref |-> ref]

\* The non-linear cell seeding its constrained loop with its own iterate
ReseedFromIterate(linear, iterate) == [id |-> iterate.id, lo |-> 2]

\* vb_linearIV[1:]: a view of the linear result, not a copy
Reseed(linear, iterate) == [id |-> linear.id, lo |-> 2]

\* The non-linear cell reading the rows the linear cell retained
NlDataRetained(all, retained) == retained

\* The non-linear cell structures mdata, every row of it
NlData(all, retained) == all

\* A failed inversion that lets the cell go on
OutcomeSwallowed(ok, next) == next

\* An exception raised by np.linalg.inv ends the cell; otherwise the cell
\* goes on with the next statement.
Outcome(ok, next) == IF ok THEN next ELSE "error"

----------------------------------------------------------------------------
(* Observation sets *)

Zeros == Tuple([i \in 1..NChars |-> 0])

Unit(k) == Tuple([i \in 1..NChars |-> IF i = k THEN Scale ELSE 0])

\* A coefficient vector [market value, characteristics, intercept]
Gen(b0, ic) == <<b0, 300000, -200000, 100000, 0, -400000, ic>>

\* A row whose weight is exp(x . beta + noise)
GenRow(me, iv, c, beta, noise) ==
    Row(Exp(Dot(<<me>> \o c \o <<Scale>>, beta) + noise), me, iv, c)

\* One row per characteristic, with zero log market value
Dummies(beta) == Tuple([k \in 1..NChars |-> GenRow(0, 0, Unit(k), beta, 0)])

\* three: 3 rows with weights .4, .3, .3, exactly log-linear in GenThree
\* exact: k+2 rows generated without noise, instrument = log market value
\* over:  k+3 rows, one of them with noise and its own instrument
\* cycle: 10 rows of ordinary size that are not log-linear
Base(s) ==
    CASE s.base = "three" ->
           << Row(400000, Scale, Scale, Zeros), Row(300000, 0, 0, Zeros),
              Row(300000, 0, 0, Unit(1)) >>
      [] s.base = "exact" ->
           Dummies(s.gen) \o << GenRow(0, 0, Zeros, s.gen, 0),
                                GenRow(Scale, Scale, Zeros, s.gen, 0) >>
      [] s.base = "over" ->
           Dummies(s.gen) \o << GenRow(0, 0, Zeros, s.gen, 0),
                                GenRow(Scale, Scale, Zeros, s.gen, 0),
                                GenRow(2 * Scale, Scale, Zeros, s.gen,
                                       300000) >>
      [] s.base = "cycle" ->
           Dummies(s.gen) \o << Row(10000, -2 * Scale, -2 * Scale, Zeros),
                                Row(2000, 0, 0, Zeros),
                                Row(100000, -2 * Scale, Scale, Zeros),
                                Row(50000, -Scale, -Scale, Zeros),
                                Row(5000, 3 * Scale, 3 * Scale, Zeros) >>

\* An extra observation of weight zero: none, one of ordinary size, or one
\* whose log market value is large enough for np.exp to overflow
ZeroRows(s) ==
    CASE s.zero = "none"    -> << >>
      [] s.zero = "benign"  -> << Row(0, 3 * Scale, 0, Zeros) >>
      [] s.zero = "extreme" -> << Row(0, 800 * Scale, 0, Zeros) >>

Data(s) == Base(s) \o ZeroRows(s)

\* ln(.4/.3), 0, ..., ln(.3): the vector the three-row set is generated from
GenThree == <<287682, 0, 0, 0, 0, 0, -1203973>>

GenLow == Gen(-1000000, -4000000)

GenMid == Gen(500000, -4000000)

GenHigh == Gen(1200000, -4000000)

\* The linear solve of the exact set of this vector is .99 to the last digit
GenEdge == Gen(990012, -3700000)

ZeroKinds == {"none", "benign", "extreme"}

Scenarios ==
    {[base |-> "three", gen |-> GenThree, zero |-> "none"]}
    \cup {[base |-> "exact", gen |-> g, zero |-> z] :
              g \in {GenLow, GenMid, GenHigh, GenEdge}, z \in ZeroKinds}
    \cup {[base |-> "over", gen |-> g, zero |-> z] :
              g \in {GenLow, GenMid, GenHigh}, z \in ZeroKinds}
    \cup {[base |-> "cycle", gen |-> GenLow, zero |-> z] :
              z \in {"none", "extreme"}}

----------------------------------------------------------------------------
(* The notebook as a state machine *)

VARIABLES
    scn,            \* which observation set was loaded (never changes)
    mdata,          \* the observation set
    mdata0,         \* its rows of positive weight
    mchars, vLNme, vLNmeIV, vLNrweight, mX, mZ, dT, dN,
    heap,           \* the array objects
    vb_linearIV,    \* the name of the linear result
    vb_nonlinearIV, \* the name of the non-linear iterate / result
    dchange,        \* a float scalar
    pc,             \* the statement to execute next
    err,            \* the exception that ended the run, if any
    iter,           \* steps taken by the current loop (counted up to MaxIter)
    linBranch,      \* what the constraint check of the linear cell did
    nlBranch,       \* what the constraint check of the non-linear cell did
    tick            \* flips with every statement the interpreter executes

data == <<mdata0, mchars, vLNme, vLNmeIV, vLNrweight, mX, mZ, dT, dN>>

names == <<heap, vb_linearIV, vb_nonlinearIV>>

vars == <<scn, mdata, mdata0, mchars, vLNme, vLNmeIV, vLNrweight, mX, mZ, dT,
          dN, heap, vb_linearIV, vb_nonlinearIV, dchange, pc, err, iter,
          linBranch, nlBranch, tick>>

One == [nan |-> FALSE, v |-> Scale]

Init ==
    /\ scn \in Scenarios
    /\ mdata = Data(scn)
    /\ mdata0 = << >>
    /\ mchars = << >> /\ vLNme = << >> /\ vLNmeIV = << >>
    /\ vLNrweight = << >> /\ mX = << >> /\ mZ = << >>
    /\ dT = 0 /\ dN = 0
    /\ heap = [i \in 1..HeapSize |-> Free]
    /\ vb_linearIV = NoRef
    /\ vb_nonlinearIV = NoRef
    /\ dchange = One
    /\ pc = "lin_structure"
    /\ err = "none"
    /\ iter = 0
    /\ linBranch = "none"
    /\ nlBranch = "none"
    /\ tick = FALSE

\* The cell stops with the exception, or goes on to statement next
Goto(ok, next) ==
    /\ pc' = Outcome(ok, next)
    /\ err' = IF Outcome(ok, next) = "error" THEN "LinAlgError" ELSE err

\* Linear IV, "structure the data"
LinStructure ==
    /\ pc = "lin_structure"
    /\ tick' = ~tick
    /\ LET rows == Take(mdata, Vloc(mdata))
       IN  /\ mdata0' = rows
           /\ mchars' = Chars(rows)
           /\ vLNme' = LNme(rows)
           /\ vLNmeIV' = LNmeIV(rows)
           /\ vLNrweight' = LogWeights(rows)
           /\ dT' = Len(rows)
           /\ mX' = Design(LNme(rows), Chars(rows))
           /\ mZ' = Design(LNmeIV(rows), Chars(rows))
    /\ pc' = "lin_solve"
    /\ UNCHANGED <<scn, mdata, dN, names, dchange, err, iter, linBranch,
                   nlBranch>>

\* Linear IV, "unconstrained estimation"
LinSolve ==
    /\ pc = "lin_solve"
    /\ tick' = ~tick
    /\ LET sol == IVSolve(mZ, mX, vLNrweight, NChars + 2)
           new == Bind(heap, Fin(sol.b))
       IN  /\ Goto(sol.ok, "lin_check")
           /\ heap' = IF sol.ok THEN new.heap ELSE heap
           /\ vb_linearIV' = IF sol.ok THEN new.ref ELSE vb_linearIV
    /\ UNCHANGED <<scn, mdata, data, vb_nonlinearIV, dchange, iter,
                   linBranch, nlBranch>>

\* Linear IV, "constrained estimation": the branch taken
LinConstrained ==
    /\ pc = "lin_check"
    /\ tick' = ~tick
    /\ AboveCeiling(Value(heap, vb_linearIV))
    /\ LET X   == DesignC(mchars)
           sol == IVSolve(X, X, OffsetTarget(vLNrweight, vLNme), NChars + 1)
           new == Rebind(heap, vb_linearIV, NoRef, Prepend(Ceil, Fin(sol.b)))
       IN  /\ mX' = X
           /\ Goto(sol.ok, "nl_structure")
           /\ heap' = IF sol.ok THEN new.heap ELSE heap
           /\ vb_linearIV' = IF sol.ok THEN new.ref ELSE vb_linearIV
           /\ linBranch' = IF sol.ok THEN "constrained" ELSE linBranch
    /\ UNCHANGED <<scn, mdata, mdata0, mchars, vLNme, vLNmeIV, vLNrweight, mZ,
                   dT, dN, vb_nonlinearIV, dchange, iter, nlBranch>>

\* Linear IV, "constrained estimation": the branch skipped
LinUnconstrained ==
    /\ pc = "lin_check"
    /\ tick' = ~tick
    /\ ~AboveCeiling(Value(heap, vb_linearIV))
    /\ linBranch' = "unconstrained"
    /\ pc' = "nl_structure"
    /\ UNCHANGED <<scn, mdata, data, names, dchange, err, iter, nlBranch>>

\* Non-linear IV, "structure the data" and the seed of the iteration
NlStructure ==
    /\ pc = "nl_structure"
    /\ tick' = ~tick
    /\ LET rows == NlData(mdata, mdata0)
       IN  /\ mchars' = Chars(rows)
           /\ vLNme' = LNme(rows)
           /\ vLNmeIV' = LNmeIV(rows)
           /\ dT' = Len(rows)
           /\ dN' = NChars + 2
           /\ mX' = Design(LNme(rows), Chars(rows))
           /\ mZ' = Design(LNmeIV(rows), Chars(rows))
    /\ vb_nonlinearIV' = vb_linearIV
    /\ dchange' = One
    /\ iter' = 0
    /\ pc' = "nl_loop"
    /\ UNCHANGED <<scn, mdata, mdata0, vLNrweight, heap, vb_linearIV, err,
                   linBranch, nlBranch>>

\* The statements shared by the two loop bodies, given the step computed
Iterate(step, next) ==
    LET old == Value(heap, vb_nonlinearIV)
        new == Rebind(heap, vb_nonlinearIV, vb_linearIV, step.b)
    IN  /\ Goto(step.ok, next)
        /\ heap' = IF step.ok THEN new.heap ELSE heap
        /\ vb_nonlinearIV' = IF step.ok THEN new.ref ELSE vb_nonlinearIV
        /\ dchange' = IF step.ok THEN MaxAbsDiff(old, step.b) ELSE dchange
        /\ iter' = IF step.ok /\ iter < MaxIter THEN iter + 1 ELSE iter

\* One pass of "while dchange > 1e-4" of the unconstrained estimation
NlStep ==
    /\ pc = "nl_loop"
    /\ tick' = ~tick
    /\ Gt(dchange, Tol)
    /\ Iterate(StepUnconstrained(Vrweight(mdata), mX, mZ,
                                 Value(heap, vb_nonlinearIV), dN), "nl_loop")
    /\ UNCHANGED <<scn, mdata, data, vb_linearIV, linBranch, nlBranch>>

\* The unconstrained loop ends
NlExit ==
    /\ pc = "nl_loop"
    /\ tick' = ~tick
    /\ ~Gt(dchange, Tol)
    /\ pc' = "nl_check"
    /\ UNCHANGED <<scn, mdata, data, names, dchange, err, iter, linBranch,
                   nlBranch>>

\* Non-linear IV, "constrained estimation": the branch skipped
NlUnconstrained ==
    /\ pc = "nl_check"
    /\ tick' = ~tick
    /\ ~AboveCeiling(Value(heap, vb_nonlinearIV))
    /\ nlBranch' = "unconstrained"
    /\ pc' = "done"
    /\ UNCHANGED <<scn, mdata, data, names, dchange, err, iter, linBranch>>

\* Non-linear IV, "constrained estimation": the branch taken, up to the loop
NlConstrained ==
    /\ pc = "nl_check"
    /\ tick' = ~tick
    /\ AboveCeiling(Value(heap, vb_nonlinearIV))
    /\ vb_nonlinearIV' = Reseed(vb_linearIV, vb_nonlinearIV)
    /\ heap' = Collect(heap, {vb_linearIV, vb_nonlinearIV'})
    /\ dchange' = One
    /\ mX' = DesignC(mchars)
    /\ dN' = dN - 1
    /\ iter' = 0
    /\ nlBranch' = "constrained"
    /\ pc' = "nlc_loop"
    /\ UNCHANGED <<scn, mdata, mdata0, mchars, vLNme, vLNmeIV, vLNrweight, mZ,
                   dT, vb_linearIV, err, linBranch>>

\* One pass of "while dchange > 1e-4" of the constrained estimation
NlcStep ==
    /\ pc = "nlc_loop"
    /\ tick' = ~tick
    /\ Gt(dchange, Tol)
    /\ Iterate(StepConstrained(Vrweight(mdata), vLNme, mX,
                               Value(heap, vb_nonlinearIV), dN), "nlc_loop")
    /\ UNCHANGED <<scn, mdata, data, vb_linearIV, linBranch, nlBranch>>

\* The constrained loop ends and .99 is put in front of the result
NlcExit ==
    /\ pc = "nlc_loop"
    /\ tick' = ~tick
    /\ ~Gt(dchange, Tol)
    /\ LET new == Rebind(heap, vb_nonlinearIV, vb_linearIV,
                         Prepend(Ceil, Value(heap, vb_nonlinearIV)))
       IN  /\ heap' = new.heap
           /\ vb_nonlinearIV' = new.ref
    /\ pc' = "done"
    /\ UNCHANGED <<scn, mdata, data, vb_linearIV, dchange, err, iter,
                   linBranch, nlBranch>>

Next ==
    \/ LinStructure
    \/ LinSolve
    \/ LinConstrained
    \/ LinUnconstrained
    \/ NlStructure
    \/ NlStep
    \/ NlExit
    \/ NlUnconstrained
    \/ NlConstrained
    \/ NlcStep
    \/ NlcExit

Spec == Init /\ [][Next]_vars

\* A cell that has not ended executes a statement
Running ==
    /\ pc \notin {"done", "error"}
    /\ tick' = ~tick

\* The interpreter always executes the next statement of a running cell.
\* Every disjunct of Next flips tick and one of them is enabled as long as
\* pc is neither "done" nor "error", so that this is WF_vars(Next).
FairSpec == Spec /\ WF_tick(Running)

----------------------------------------------------------------------------
(* The estimators as functions of the observation set *)

\* The linear cell up to its unconstrained solve
LinearUnconstrainedOn(md) ==
    LET rows == Take(md, Vloc(md))
    IN  IVSolve(Design(LNmeIV(rows), Chars(rows)),
                Design(LNme(rows), Chars(rows)), LogWeights(rows), NChars + 2)

\* The least-squares solve of the constrained branch of the linear cell
LinearConstrainedOn(md) ==
    LET rows == Take(md, Vloc(md))
        X    == DesignC(Chars(rows))
    IN  IVSolve(X, X, OffsetTarget(LogWeights(rows), LNme(rows)), NChars + 1)

\* The linear cell (for an observation set whose solves succeed)
LinearIVOn(md) ==
    LET u == LinearUnconstrainedOn(md)
    IN  IF u.b[1] > Ceil THEN Prepend(Ceil, Fin(LinearConstrainedOn(md).b))
        ELSE Fin(u.b)

RECURSIVE LoopOn(_, _, _, _, _)
\* A loop of the non-linear cell from iterate b with last change d, for at
\* most k more passes
LoopOn(md, con, b, d, k) ==
    IF ~Gt(d, Tol) \/ k = 0 THEN b
    ELSE LET X == IF con THEN DesignC(Chars(md))
                  ELSE Design(LNme(md), Chars(md))
             s == IF con
                  THEN StepConstrained(Vrweight(md), LNme(md), X, b,
                                       NChars + 1)
                  ELSE StepUnconstrained(Vrweight(md), X,
                                         Design(LNmeIV(md), Chars(md)), b,
                                         NChars + 2)
         IN  LoopOn(md, con, s.b, MaxAbsDiff(b, s.b), k - 1)

\* The non-linear cell seeded with the linear result lin
NonlinearIVOn(md, lin) ==
    LET u == LoopOn(md, FALSE, lin, One, MaxIter)
    IN  IF Gt(At(u, 1), Ceil)
        THEN Prepend(Ceil, LoopOn(md, TRUE, Rest(lin), One, MaxIter))
        ELSE u

\* The observation set without its i-th row
Without(md, i) == SubSeq(md, 1, i - 1) \o SubSeq(md, i + 1, Len(md))

----------------------------------------------------------------------------
(* Properties *)

Linear == Value(heap, vb_linearIV)

Nonlinear == Value(heap, vb_nonlinearIV)

AfterLinearCell == {"nl_structure", "nl_loop", "nl_check", "nlc_loop", "done"}

InNonlinearCell == {"nl_loop", "nl_check", "nlc_loop", "done"}

\* x < c for a float scalar: False when x is NaN
Lt(x, c) == ~x.nan /\ x.v < c

\* C1: when the notebook has run to its end, the first element of the
\* linear result and the first element of the non-linear result are both
\* <= 0.99.
C1_CeilingRespected ==
    pc = "done" => Le(At(Linear, 1), Ceil) /\ Le(At(Nonlinear, 1), Ceil)

OneMoreStep ==
    IF nlBranch = "constrained"
    THEN StepConstrained(Vrweight(mdata), vLNme, mX, Rest(Nonlinear), dN)
    ELSE StepUnconstrained(Vrweight(mdata), mX, mZ, Nonlinear, dN)

\* C3: one more step of the update applied to the returned non-linear
\* result changes every coefficient by less than 1e-4.
C3_FixedPoint ==
    pc = "done" =>
        /\ OneMoreStep.ok
        /\ Lt(MaxAbsDiff(IF nlBranch = "constrained" THEN Rest(Nonlinear)
                          ELSE Nonlinear,
                         OneMoreStep.b), Tol)

\* C4: every run of the notebook ends, with the results or with an error.
C4_Terminates == <>(pc \in {"done", "error"})

\* C5: the linear result is the one of the observation set without any of
\* its zero-weight rows, and the non-linear cell works on every row of the
\* observation set: dT, X, Z and the log market values have as many rows
\* as mdata in both loops.
C5_RowSelection ==
    /\ pc \in AfterLinearCell =>
           \A i \in 1..Len(mdata) :
               mdata[i].w = 0 => Linear = LinearIVOn(Without(mdata, i))
    /\ pc \in InNonlinearCell =>
           /\ dT = Len(mdata)
           /\ Len(mX) = Len(mdata)
           /\ Len(mZ) = Len(mdata)
           /\ Len(vLNme) = Len(mdata)
           /\ Len(mchars) = Len(mdata)

\* A zero-weight row that the linear result ignores changes the non-linear
\* result
C5_Witness ==
    /\ pc = "done"
    /\ Nonlinear.nan = {}
    /\ \E i \in 1..Len(mdata) :
           /\ mdata[i].w = 0
           /\ Linear = LinearIVOn(Without(mdata, i))
           /\ Nonlinear # NonlinearIVOn(Without(mdata, i), Linear)

\* A statement of the non-linear cell leaves the linear result as it was
LinearKept ==
    pc \in AfterLinearCell =>
        Value(heap', vb_linearIV') = Value(heap, vb_linearIV)

\* C6: no statement of the non-linear cell changes the linear result, each
\* loop that ended made at least one pass, and the non-linear result is
\* another array than the linear one.
C6_LinearUntouched ==
    /\ [][LinearKept]_vars
    /\ [](pc \in {"nl_check", "done"} => iter >= 1)
    /\ [](pc = "done" => vb_nonlinearIV.id # vb_linearIV.id)

\* Both loops ran and the two results differ
C6_Witness ==
    /\ pc = "done"
    /\ nlBranch = "constrained"
    /\ vb_nonlinearIV.id # vb_linearIV.id
    /\ Nonlinear # Linear

\* The statement about to run inverts a singular matrix
SolveFails ==
    \/ /\ pc = "lin_solve"
       /\ ~IVSolve(mZ, mX, vLNrweight, NChars + 2).ok
    \/ /\ pc = "lin_check"
       /\ Gt(At(Linear, 1), Ceil)
       /\ ~IVSolve(DesignC(mchars), DesignC(mchars),
                   OffsetTarget(vLNrweight, vLNme), NChars + 1).ok
    \/ /\ pc = "nl_loop"
       /\ Gt(dchange, Tol)
       /\ ~StepUnconstrained(Vrweight(mdata), mX, mZ, Nonlinear, dN).ok
    \/ /\ pc = "nlc_loop"
       /\ Gt(dchange, Tol)
       /\ ~StepConstrained(Vrweight(mdata), vLNme, mX, Nonlinear, dN).ok

\* A failed inversion ends the run, and no statement runs after an error
Propagated ==
    /\ SolveFails =>
           /\ pc' = "error"
           /\ err' = "LinAlgError"
           /\ UNCHANGED names
    /\ pc # "error"

Recovers(b, g) ==
    /\ b.nan = {}
    /\ Len(b.v) = Len(g)
    /\ \A i \in 1..Len(g) : Abs(b.v[i] - g[i]) <= Tol

C9_StopsOnlyConverged ==
    /\ pc \in {"nl_check", "done"} => Le(dchange, Tol)
    /\ pc = "done" => Nonlinear.nan = {}

\* How the constrained loop is entered
EntersConstrained ==
    (pc' = "nlc_loop" /\ pc # "nlc_loop") =>
        /\ pc = "nl_check"
        /\ Gt(At(Value(heap, vb_nonlinearIV), 1), Ceil)
        /\ Value(heap', vb_nonlinearIV') = Rest(Value(heap, vb_linearIV))
        /\ Len(Value(heap', vb_nonlinearIV').v) = NChars + 1
        /\ dN' = NChars + 1

\* How the constrained loop is left
LeavesConstrained ==
    (pc = "nlc_loop" /\ pc' # "nlc_loop") =>
        /\ pc' \in {"done", "error"}
        /\ pc' = "done" =>
               Value(heap', vb_nonlinearIV') =
                   Prepend(Ceil, Value(heap, vb_nonlinearIV))

=============================================================================
